---- MODULE Spec2Model ----
(***************************************************************************)
(* College Digital Application Management System: the application          *)
(* workflow of src/main.py (submit_application, act_on_application,        *)
(* get_timeline) over the collections "application" and "statusupdate",    *)
(* with the entity schemas of src/schemas.py.                              *)
(*                                                                         *)
(* Every handler is cut at its store operations: one step per pymongo /    *)
(* create_document call together with the local code that leads to it.     *)
(* Spec runs the handlers one at a time (they are `async def` bodies with  *)
(* no await, run by the single uvicorn event loop of main.py:197-200);     *)
(* ConcSpec lets handlers of several workers interleave between their      *)
(* store operations (several server processes on one store).               *)
(***************************************************************************)
EXTENDS Integers, Sequences, FiniteSets, TLC

VARIABLES
    db,            \* the module-level store handle: "connected" or "none"
    application,   \* collection "application": documents in insertion order
    statusupdate,  \* collection "statusupdate": documents in insertion order
    refdata,       \* collections "department", "user", "notification", each in insertion order
    clock,         \* the wall clock create_document stamps documents with
    pc,            \* per worker: where its handler stands
    local,         \* per worker: the handler's local variables
    resp,          \* per worker: the response of its last finished request
    nreq,          \* requests so far that went on to write to the store
    calls          \* history: per application id, the actions whose update was applied

vars == <<db, application, statusupdate, refdata, clock, pc, local, resp, nreq, calls>>

\* ---------------------------------------------------------------- bounds
MaxRequests == 3

\* the reference-data documents (departments, users, notifications) a run stores
MaxRefDocs == 1

Workers == {"w1", "w2"}

\* the reference-data collections
RefCollections == {"department", "user", "notification"}

WorkerRank == [w \in Workers |-> IF w = "w1" THEN 1 ELSE 2]

\* ---------------------------------------------------------------- values
\* Python's None, as a value apart from every string the model uses
None == "<None>"

\* Literal[...] of Application.status
StatusLiterals == {"submitted", "under_review", "approved", "rejected", "forwarded"}

\* Literal[...] of Application.current_stage
StageLiterals == {"coordinator", "hod", "registrar", "admin"}

\* Literal[...] of Application.category
CategoryLiterals ==
    {"bonafide_certificate", "leave_request", "lab_access", "project_approval", "general"}

\* Literal[...] of StatusUpdate.actor_role
RoleLiterals == {"student", "coordinator", "hod", "registrar", "admin", "superadmin"}

\* Literal[...] of StatusUpdate.action
ActionLiterals == {"submit", "review", "forward", "approve", "reject", "comment"}

\* EmailStr: the addresses of the model that are well formed
IsEmail(s) == s \in {"alice@college.edu", "bob@college.edu"}

\* Python truthiness of an Optional[str]: None and "" are falsy
Truthy(s) == s # None /\ s # ""

\* ---------------------------------------------------------------- schemas
RequiredApplicationFields ==
    {"student_id", "student_name", "student_email", "department_code", "title", "description"}

\* a field of a request body, or the schema's default when the body omits it
FieldOr(p, f, default) == IF f \in DOMAIN p THEN p[f] ELSE default

\* Application(**payload): the model instance, defaults filled in
Application(p) ==
    [student_id      |-> p.student_id,
     student_name    |-> p.student_name,
     student_email   |-> p.student_email,
     department_code |-> p.department_code,
     category        |-> FieldOr(p, "category", "general"),
     title           |-> p.title,
     description     |-> p.description,
     attachments     |-> FieldOr(p, "attachments", <<>>),
     status          |-> FieldOr(p, "status", "submitted"),
     current_stage   |-> FieldOr(p, "current_stage", "coordinator"),
     route_history   |-> FieldOr(p, "route_history", <<>>)]

\* request validation of a submission body against Application
ValidApplication(p) ==
    /\ RequiredApplicationFields \subseteq DOMAIN p
    /\ IsEmail(p.student_email)
    /\ FieldOr(p, "category", "general") \in CategoryLiterals
    /\ FieldOr(p, "status", "submitted") \in StatusLiterals
    /\ FieldOr(p, "current_stage", "coordinator") \in StageLiterals

\* StatusUpdate(...): the model instance, created_at left at its default
StatusUpdate(application_id, actor_role, actor_name, action, comments, to_department) ==
    [application_id |-> application_id,
     actor_role     |-> actor_role,
     actor_name     |-> actor_name,
     action         |-> action,
     comments       |-> comments,
     to_department  |-> to_department,
     created_at     |-> None]

\* pydantic validation run by the StatusUpdate constructor
ValidStatusUpdate(su) ==
    /\ su.actor_role \in RoleLiterals
    /\ su.action \in ActionLiterals

\* ---------------------------------------------------------------- store
\* Application ids travel as strings. The model writes them as integers: n > 0
\* is str() of the n-th ObjectId the store generated (24 lower-case hex digits),
\* -n is the same digits in upper case, 0 is every string that is not 24 hex
\* digits.

\* ObjectId(app_id) accepts the string (bytes.fromhex takes either case)
ObjectIdValid(app_id) == app_id # 0

\* ObjectId(app_id): the identifier the string denotes
ObjectId(app_id) == IF app_id < 0 THEN -app_id ELSE app_id

\* str(inserted_id): the lower-case hex form
Str(oid) == oid

\* db["application"].find_one({"_id": oid}) finds a document
Exists(oid) == oid \in 1..Len(application)

\* db["application"].find_one({"_id": oid})
FindOne(oid) == application[oid]

\* the timestamps create_document may read now: the clock has millisecond
\* resolution and never runs backwards
Now == {clock, clock + 1}

\* create_document(collection, data): the document inserted, with the
\* store-generated _id; an entity with a created_at field gets the creation
\* timestamp in it
NewDocument(collection, data, now) ==
    [k \in DOMAIN data \cup {"_id"} |->
        CASE k = "_id"        -> Len(collection) + 1
          [] k = "created_at" -> now
          [] OTHER            -> data[k]]

\* ---------------------------------------------------------------- inputs
Alice ==
    [student_id |-> "S1", student_name |-> "alice", student_email |-> "alice@college.edu",
     department_code |-> "CSE", title |-> "Leave", description |-> "Two days"]

\* a body that carries the workflow fields itself
Bob ==
    [student_id |-> "S2", student_name |-> "bob", student_email |-> "bob@college.edu",
     department_code |-> "ECE", title |-> "Lab", description |-> "Evening access",
     category |-> "lab_access", status |-> "approved", current_stage |-> "hod",
     route_history |-> <<"registrar">>]

\* a body the schema rejects
Mallory ==
    [student_id |-> "S3", student_name |-> "mallory", student_email |-> "alice@college.edu",
     department_code |-> "CSE", title |-> "Leave", description |-> "Two days",
     status |-> "done"]

Payloads == {Alice, Bob, Mallory}

\* a ReviewAction body; actor_role and action are any str
ReviewAction(actor_role, action, to_department) ==
    [actor_role |-> actor_role, actor_name |-> "rao", action |-> action,
     comments |-> None, to_department |-> to_department]

\* the bodies of the model: every branch on action, to_department present,
\* absent and empty, inside and outside the stage names, and an actor_role and
\* an action that StatusUpdate does not list
ReviewActions ==
    {ReviewAction("coordinator", "forward", "hod"),
     ReviewAction("coordinator", "forward", "CSE"),
     ReviewAction("hod", "forward", None),
     ReviewAction("hod", "forward", ""),
     ReviewAction("hod", "approve", None),
     ReviewAction("hod", "reject", None),
     ReviewAction("hod", "review", None),
     ReviewAction("hod", "submit", None),
     ReviewAction("hod", "escalate", None),
     ReviewAction("dean", "approve", None)}

\* path parameters: a malformed string, the stored ids in either case, and a
\* well-formed id that is not stored
AppIds == (-Len(application))..(Len(application) + 1)

\* the bodies sent where the handler ends before it reads the body
ErrorActions == {ReviewAction("hod", "approve", None), ReviewAction("hod", "forward", "hod")}

\* the bodies sent with a path parameter: an upper-case id comes with one body
ReviewActionsFor(app_id) ==
    IF app_id < 0 THEN {ReviewAction("hod", "approve", None)} ELSE ReviewActions

\* ---------------------------------------------------------------- responses
NoLocal == [op |-> "none"]

NoResponse ==
    [code |-> 0, id |-> 0, status |-> None, current_stage |-> None,
     timeline |-> <<>>, items |-> <<>>]

\* an HTTP error response
ErrorResponse(code) == [NoResponse EXCEPT !.code = code]

Idle == \A w \in Workers : pc[w] = "idle"

\* no response is waiting to be sent: sending one is local to its worker, so
\* the model sends it before any other worker's next step
Sent == \A w \in Workers : pc[w] # "done"

\* the handler of worker w ends with response r
Respond(w, r) ==
    /\ resp' = [resp EXCEPT ![w] = r]
    /\ pc' = [pc EXCEPT ![w] = "done"]

\* the parameters a handler is called with
SubmitCall(p) == [op |-> "submit", payload |-> p]

ActCall(app_id, action) == [op |-> "act", app_id |-> app_id, action |-> action]

TimelineCall(app_id) == [op |-> "timeline", app_id |-> app_id]

\* the response is sent and the worker is free again
Return(w) ==
    /\ pc[w] = "done"
    /\ pc' = [pc EXCEPT ![w] = "idle"]
    /\ resp' = [resp EXCEPT ![w] = NoResponse]
    /\ local' = [local EXCEPT ![w] = NoLocal]
    /\ UNCHANGED <<db, refdata, application, statusupdate, clock, nreq, calls>>

\* requests go to the first free worker
Begin(w) ==
    /\ pc[w] = "idle"
    /\ \A v \in Workers : WorkerRank[v] < WorkerRank[w] => pc[v] # "idle"
    /\ UNCHANGED nreq

\* as Begin, for a request that goes on to write to the store: the model
\* follows MaxRequests of them
BeginWrite(w) ==
    /\ pc[w] = "idle"
    /\ \A v \in Workers : WorkerRank[v] < WorkerRank[w] => pc[v] # "idle"
    /\ nreq < MaxRequests
    /\ nreq' = nreq + 1

Init ==
    /\ db \in {"connected", "none"}
    /\ application = <<>>
    /\ statusupdate = <<>>
    /\ refdata = [c \in RefCollections |-> <<>>]
    /\ clock = 0
    /\ pc = [w \in Workers |-> "idle"]
    /\ local = [w \in Workers |-> NoLocal]
    /\ resp = [w \in Workers |-> NoResponse]
    /\ nreq = 0
    /\ calls = <<>>

\* ---------------------------------------------------------------- act_on_application
\* as NewStatus, with the status read kept in the else branch
NewStatus_ElseKeeps(doc, action) ==
    CASE action.action = "forward" -> "forwarded"
      [] action.action = "approve" -> "approved"
      [] action.action = "reject"  -> "rejected"
      [] OTHER                     -> doc.status

\* new_status of act_on_application, from the document read and the action
NewStatus(doc, action) ==
    CASE action.action = "forward" -> "forwarded"
      [] action.action = "approve" -> "approved"
      [] action.action = "reject"  -> "rejected"
      [] OTHER                     -> "under_review"

\* as CurrentStage, with `is not None` in place of the truth test of `or`
CurrentStage_IsNotNone(doc, action) ==
    IF action.action = "forward" /\ action.to_department # None
    THEN action.to_department
    ELSE doc.current_stage

\* current_stage of act_on_application, from the document read and the action
CurrentStage(doc, action) ==
    IF action.action = "forward" /\ Truthy(action.to_department)
    THEN action.to_department
    ELSE doc.current_stage

\* as UpdateOne, with route_history under $set in place of $push
UpdateOne_SetHistory(stored, action, new_status, current_stage) ==
    IF action.action = "forward"
    THEN [stored EXCEPT !.status = new_status,
                        !.current_stage = current_stage,
                        !.route_history = <<current_stage>>]
    ELSE [stored EXCEPT !.status = new_status]

\* as UpdateOne, with a forward also moving the application to the department
UpdateOne_WithDepartment(stored, action, new_status, current_stage) ==
    IF action.action = "forward"
    THEN [stored EXCEPT !.status = new_status,
                        !.current_stage = current_stage,
                        !.department_code = current_stage,
                        !.route_history = Append(@, current_stage)]
    ELSE [stored EXCEPT !.status = new_status]

\* as UpdateOne, with status left out of $set
UpdateOne_StageOnly(stored, action, new_status, current_stage) ==
    IF action.action = "forward"
    THEN [stored EXCEPT !.current_stage = current_stage,
                        !.route_history = Append(@, current_stage)]
    ELSE stored

\* as UpdateOne, with to_department as sent pushed to route_history
UpdateOne_PushDepartment(stored, action, new_status, current_stage) ==
    IF action.action = "forward"
    THEN [stored EXCEPT !.status = new_status,
                        !.current_stage = current_stage,
                        !.route_history = Append(@, action.to_department)]
    ELSE [stored EXCEPT !.status = new_status]

\* update_one on the stored document: $set and $push of the branch taken
UpdateOne(stored, action, new_status, current_stage) ==
    IF action.action = "forward"
    THEN [stored EXCEPT !.status = new_status,
                        !.current_stage = current_stage,
                        !.route_history = Append(@, current_stage)]
    ELSE [stored EXCEPT !.status = new_status]

\* the StatusUpdate act_on_application builds
ActionUpdate(app_id, action) ==
    StatusUpdate(app_id, action.actor_role, action.actor_name, action.action,
                 action.comments, action.to_department)

\* db is None: 500 before any lookup
ActUnavailable(w, app_id, action) ==
    /\ Begin(w)
    /\ db = "none"
    /\ local' = [local EXCEPT ![w] = ActCall(app_id, action)]
    /\ Respond(w, ErrorResponse(500))
    /\ UNCHANGED <<db, refdata, application, statusupdate, clock, calls>>

\* ObjectId(app_id) raises InvalidId, which nothing catches: 500
ActInvalidId(w, app_id, action) ==
    /\ Begin(w)
    /\ db = "connected"
    /\ ~ObjectIdValid(app_id)
    /\ local' = [local EXCEPT ![w] = ActCall(app_id, action)]
    /\ Respond(w, ErrorResponse(500))
    /\ UNCHANGED <<db, refdata, application, statusupdate, clock, calls>>

\* find_one finds nothing: 404
ActNotFound(w, app_id, action) ==
    /\ Begin(w)
    /\ db = "connected"
    /\ ObjectIdValid(app_id)
    /\ ~Exists(ObjectId(app_id))
    /\ local' = [local EXCEPT ![w] = ActCall(app_id, action)]
    /\ Respond(w, ErrorResponse(404))
    /\ UNCHANGED <<db, refdata, application, statusupdate, clock, calls>>

\* find_one returns the document; new_status and current_stage are computed
ActFind(w, app_id, action) ==
    /\ BeginWrite(w)
    /\ db = "connected"
    /\ ObjectIdValid(app_id)
    /\ Exists(ObjectId(app_id))
    /\ LET doc == FindOne(ObjectId(app_id)) IN
         local' = [local EXCEPT ![w] =
                     [op |-> "act", app_id |-> app_id, action |-> action,
                      new_status |-> NewStatus(doc, action),
                      current_stage |-> CurrentStage(doc, action)]]
    /\ pc' = [pc EXCEPT ![w] = "act_update"]
    /\ UNCHANGED <<db, refdata, application, statusupdate, clock, resp, calls>>

\* update_one of the branch taken
ActUpdate(w) ==
    /\ pc[w] = "act_update"
    /\ LET l == local[w]
           oid == ObjectId(l.app_id) IN
         /\ application' = [application EXCEPT ![oid] =
                              UpdateOne(@, l.action, l.new_status, l.current_stage)]
         /\ calls' = [calls EXCEPT ![oid] = Append(@, l.action.action)]
    /\ pc' = [pc EXCEPT ![w] = "act_log"]
    /\ UNCHANGED <<db, refdata, statusupdate, clock, local, resp, nreq>>

\* StatusUpdate(...) raises ValidationError, which nothing catches: 500
ActLogInvalid(w) ==
    /\ pc[w] = "act_log"
    /\ ~ValidStatusUpdate(ActionUpdate(local[w].app_id, local[w].action))
    /\ Respond(w, ErrorResponse(500))
    /\ UNCHANGED <<db, refdata, application, statusupdate, clock, local, nreq, calls>>

\* create_document("statusupdate", su) and the response
ActLog(w) ==
    /\ pc[w] = "act_log"
    /\ LET l == local[w]
           su == ActionUpdate(l.app_id, l.action) IN
         /\ ValidStatusUpdate(su)
         /\ \E now \in Now :
              /\ clock' = now
              /\ statusupdate' = Append(statusupdate, NewDocument(statusupdate, su, now))
         /\ Respond(w, [NoResponse EXCEPT !.code = 200, !.id = l.app_id,
                                          !.status = l.new_status,
                                          !.current_stage = l.current_stage])
    /\ UNCHANGED <<db, refdata, application, local, nreq, calls>>

\* ---------------------------------------------------------------- submit_application
\* the body fails validation against Application: 422, the handler never runs
SubmitInvalid(w, p) ==
    /\ Begin(w)
    /\ ~ValidApplication(p)
    /\ local' = [local EXCEPT ![w] = SubmitCall(p)]
    /\ Respond(w, ErrorResponse(422))
    /\ UNCHANGED <<db, refdata, application, statusupdate, clock, calls>>

\* create_document without a store raises: 500
SubmitUnavailable(w, p) ==
    /\ Begin(w)
    /\ ValidApplication(p)
    /\ db = "none"
    /\ local' = [local EXCEPT ![w] = SubmitCall(p)]
    /\ Respond(w, ErrorResponse(500))
    /\ UNCHANGED <<db, refdata, application, statusupdate, clock, calls>>

\* create_document("application", app_data)
SubmitInsert(w, p) ==
    /\ BeginWrite(w)
    /\ ValidApplication(p)
    /\ db = "connected"
    /\ LET doc == NewDocument(application, Application(p), clock) IN
         /\ application' = Append(application, doc)
         /\ local' = [local EXCEPT ![w] =
                        [op |-> "submit", inserted_id |-> Str(doc._id),
                         app_data |-> Application(p)]]
    /\ calls' = Append(calls, <<>>)
    /\ pc' = [pc EXCEPT ![w] = "submit_log"]
    /\ UNCHANGED <<db, refdata, statusupdate, clock, resp>>

\* as SubmitUpdate, with the student's id where the name belongs
SubmitUpdate_StudentId(inserted_id, app_data) ==
    StatusUpdate(inserted_id, "student", app_data.student_id, "submit",
                 "Application submitted", None)

\* the StatusUpdate submit_application builds
SubmitUpdate(inserted_id, app_data) ==
    StatusUpdate(inserted_id, "student", app_data.student_name, "submit",
                 "Application submitted", None)

\* the response of submit_application
SubmitResponse(inserted_id) ==
    [NoResponse EXCEPT !.code = 200, !.id = inserted_id, !.status = "submitted"]

\* create_document("statusupdate", su) and the response
SubmitLog(w) ==
    /\ pc[w] = "submit_log"
    /\ LET l == local[w]
           su == SubmitUpdate(l.inserted_id, l.app_data) IN
         /\ ValidStatusUpdate(su)
         /\ \E now \in Now :
              /\ clock' = now
              /\ statusupdate' = Append(statusupdate, NewDocument(statusupdate, su, now))
         /\ Respond(w, SubmitResponse(l.inserted_id))
    /\ UNCHANGED <<db, refdata, application, local, nreq, calls>>

\* ---------------------------------------------------------------- get_timeline
\* to_public(doc): _id leaves the document, id = str(_id) enters it
to_public(doc) ==
    [k \in (DOMAIN doc \ {"_id"}) \cup {"id"} |->
        IF k = "id" THEN Str(doc._id) ELSE doc[k]]

\* as Find, with find_one semantics: the latest matching document only
Find_Latest(app_id) ==
    LET docs == SelectSeq(statusupdate, LAMBDA d : d.application_id = app_id) IN
    IF docs = <<>> THEN <<>> ELSE <<docs[Len(docs)]>>

\* as Find, with the filter left out
Find_NoFilter(app_id) == statusupdate

\* find({"application_id": app_id}): the matching documents
Find(app_id) == SelectSeq(statusupdate, LAMBDA d : d.application_id = app_id)

\* .sort("created_at", 1): the orders the store may return docs in; documents
\* with equal created_at come in any order
Sort(docs) ==
    LET n == Len(docs)
        perms == {f \in [1..n -> 1..n] : \A i, j \in 1..n : i # j => f[i] # f[j]}
    IN  {[i \in 1..n |-> docs[f[i]]] : f \in
            {g \in perms : \A i, j \in 1..n :
                i < j => docs[g[i]].created_at <= docs[g[j]].created_at}}

\* db is None: 500
TimelineUnavailable(w, app_id) ==
    /\ Begin(w)
    /\ db = "none"
    /\ local' = [local EXCEPT ![w] = TimelineCall(app_id)]
    /\ Respond(w, ErrorResponse(500))
    /\ UNCHANGED <<db, refdata, application, statusupdate, clock, calls>>

\* the whole handler: one query, no write
GetTimeline(w, app_id) ==
    /\ Begin(w)
    /\ db = "connected"
    /\ local' = [local EXCEPT ![w] = TimelineCall(app_id)]
    /\ \E docs \in Sort(Find(app_id)) :
         Respond(w, [NoResponse EXCEPT
                        !.code = 200, !.id = app_id,
                        !.timeline = [i \in 1..Len(docs) |-> to_public(docs[i])]])
    /\ UNCHANGED <<db, refdata, application, statusupdate, clock, calls>>

\* ---------------------------------------------------------------- reference data
\* Literal[...] of Department.type
TypeLiterals == {"academic", "administrative"}

\* Literal[...] of User.role
UserRoleLiterals == {"student", "coordinator", "hod", "registrar", "admin", "superadmin"}

\* Department(**payload): the model instance, defaults filled in
Department(p) ==
    [name |-> p.name, code |-> p.code,
     type |-> FieldOr(p, "type", "academic"),
     is_active |-> FieldOr(p, "is_active", TRUE)]

ValidDepartment(p) ==
    /\ {"name", "code"} \subseteq DOMAIN p
    /\ FieldOr(p, "type", "academic") \in TypeLiterals

\* User(**payload)
User(p) ==
    [full_name |-> p.full_name, email |-> p.email, role |-> p.role,
     department_code |-> FieldOr(p, "department_code", None),
     is_active |-> FieldOr(p, "is_active", TRUE)]

ValidUser(p) ==
    /\ {"full_name", "email", "role"} \subseteq DOMAIN p
    /\ IsEmail(p.email)
    /\ p.role \in UserRoleLiterals

\* Notification(**payload)
Notification(p) ==
    [user_email |-> p.user_email, title |-> p.title, message |-> p.message,
     read |-> FieldOr(p, "read", FALSE)]

ValidNotification(p) ==
    /\ {"user_email", "title", "message"} \subseteq DOMAIN p
    /\ IsEmail(p.user_email)

\* the request bodies of the reference-data endpoints
Cse == [name |-> "Computer Science", code |-> "CSE"]

Rao == [full_name |-> "rao", email |-> "bob@college.edu", role |-> "hod"]

\* a user whose role is outside the Literal
Dean == [full_name |-> "dean", email |-> "bob@college.edu", role |-> "dean"]

Note == [user_email |-> "alice@college.edu", title |-> "Update", message |-> "Forwarded"]

\* the reference-data documents stored so far
RefDocs ==
    Len(refdata["department"]) + Len(refdata["user"]) + Len(refdata["notification"])

\* the shape create_department, create_user and notify share: the body is
\* validated (422), then create_document(collection, entity) inserts it and the
\* id comes back; without a store create_document raises (500)
CreateReference(w, collection, valid, entity) ==
    /\ Begin(w)
    /\ local' = [local EXCEPT ![w] = [op |-> "create", collection |-> collection]]
    /\ IF ~valid
       THEN Respond(w, ErrorResponse(422)) /\ UNCHANGED refdata
       ELSE IF db = "none"
       THEN Respond(w, ErrorResponse(500)) /\ UNCHANGED refdata
       ELSE /\ RefDocs < MaxRefDocs
            /\ LET doc == NewDocument(refdata[collection], entity, clock) IN
                 /\ refdata' = [refdata EXCEPT ![collection] = Append(@, doc)]
                 /\ Respond(w, [NoResponse EXCEPT !.code = 200, !.id = Str(doc._id)])
    /\ UNCHANGED <<db, application, statusupdate, clock, calls>>

create_department(w, dept) ==
    CreateReference(w, "department", ValidDepartment(dept), Department(dept))

create_user(w, user) ==
    CreateReference(w, "user", ValidUser(user), User(user))

notify(w, note) ==
    CreateReference(w, "notification", ValidNotification(note), Notification(note))

\* the filter a list handler builds: the query parameters that are truthy
Filt(params) == [k \in {f \in DOMAIN params : Truthy(params[f])} |-> params[k]]

\* get_documents(collection, filt): the documents that match every key exactly
GetDocuments(collection, filt) ==
    SelectSeq(collection,
              LAMBDA d : \A k \in DOMAIN filt : k \in DOMAIN d /\ d[k] = filt[k])

\* the shape the list handlers share: [to_public(d) for d in docs]; without a
\* store get_documents raises (500)
ListDocuments(w, name, collection, params) ==
    /\ Begin(w)
    /\ local' = [local EXCEPT ![w] = [op |-> "list", collection |-> name, params |-> params]]
    /\ IF db = "none"
       THEN Respond(w, ErrorResponse(500))
       ELSE LET docs == GetDocuments(collection, Filt(params)) IN
            Respond(w, [NoResponse EXCEPT
                          !.code = 200,
                          !.items = [i \in 1..Len(docs) |-> to_public(docs[i])]])
    /\ UNCHANGED <<db, refdata, application, statusupdate, clock, calls>>

\* the query parameters of list_applications, none given
NoQuery ==
    [student_id |-> None, department_code |-> None, status |-> None, category |-> None]

ListQueries ==
    {NoQuery, [NoQuery EXCEPT !.status = "forwarded"], [NoQuery EXCEPT !.status = ""]}

list_applications(w, query) == ListDocuments(w, "application", application, query)

list_departments(w) ==
    ListDocuments(w, "department", refdata["department"], <<>>)

list_users(w) == ListDocuments(w, "user", refdata["user"], <<>>)

list_notifications(w, user_email) ==
    ListDocuments(w, "notification", refdata["notification"], [user_email |-> user_email])

\* ---------------------------------------------------------------- specifications
\* a request arrives at worker w
Request(w) ==
    \/ \E p \in Payloads : SubmitInvalid(w, p)
    \/ \E p \in Payloads : SubmitUnavailable(w, p)
    \/ \E p \in Payloads : SubmitInsert(w, p)
    \/ \E app_id \in AppIds : \E action \in ErrorActions : ActUnavailable(w, app_id, action)
    \/ \E app_id \in AppIds : \E action \in ErrorActions : ActInvalidId(w, app_id, action)
    \/ \E app_id \in AppIds : \E action \in ErrorActions : ActNotFound(w, app_id, action)
    \/ \E app_id \in AppIds : \E action \in ReviewActionsFor(app_id) : ActFind(w, app_id, action)
    \/ \E app_id \in AppIds : TimelineUnavailable(w, app_id)
    \/ \E app_id \in AppIds : GetTimeline(w, app_id)

\* worker w's handler goes on to its next store operation
Continue(w) ==
    \/ SubmitLog(w)
    \/ ActUpdate(w)
    \/ ActLogInvalid(w)
    \/ ActLog(w)

\* one event loop: a handler runs to its end before the next request is taken
Next ==
    \/ \E w \in Workers : Idle /\ Request(w)
    \/ \E w \in Workers : Continue(w)
    \/ \E w \in Workers : Return(w)

Spec == Init /\ [][Next]_vars

\* the requests of the interleaved runs: submissions that leave the workflow
\* fields to the schema, and actions on stored applications
ConcActions ==
    {ReviewAction("coordinator", "forward", "hod"),
     ReviewAction("hod", "forward", None),
     ReviewAction("hod", "approve", None),
     ReviewAction("hod", "review", None),
     ReviewAction("dean", "approve", None)}

ConcRequest(w) ==
    \/ SubmitInsert(w, Alice)
    \/ \E app_id \in 1..Len(application) : \E action \in ConcActions :
            ActFind(w, app_id, action)
    \/ \E app_id \in 0..(Len(application) + 1) : GetTimeline(w, app_id)

\* several processes on one store: handlers interleave between store operations
ConcNext ==
    \/ \E w \in Workers : Sent /\ ConcRequest(w)
    \/ \E w \in Workers : Sent /\ Continue(w)
    \/ \E w \in Workers : Return(w)

ConcSpec == Init /\ [][ConcNext]_vars

\* the requests of the runs with reference data: those of the interleaved
\* runs, and the reference-data and list endpoints
RefRequest(w) ==
    \/ ConcRequest(w)
    \/ create_department(w, Cse)
    \/ \E user \in {Rao, Dean} : create_user(w, user)
    \/ notify(w, Note)
    \/ \E query \in ListQueries : list_applications(w, query)
    \/ list_departments(w)
    \/ list_users(w)
    \/ \E user_email \in {None, "alice@college.edu"} : list_notifications(w, user_email)

\* one event loop over all the endpoints
RefNext ==
    \/ \E w \in Workers : Idle /\ RefRequest(w)
    \/ \E w \in Workers : Continue(w)
    \/ \E w \in Workers : Return(w)

RefSpec == Init /\ [][RefNext]_vars

\* ---------------------------------------------------------------- store failure
\* create_document("statusupdate", su) of submit_application raises: nothing
\* catches it and nothing undoes the insert of the application; 500
SubmitLogFail(w) ==
    /\ pc[w] = "submit_log"
    /\ ValidStatusUpdate(SubmitUpdate(local[w].inserted_id, local[w].app_data))
    /\ Respond(w, ErrorResponse(500))
    /\ UNCHANGED <<db, refdata, application, statusupdate, clock, local, nreq, calls>>

\* create_document("statusupdate", su) of act_on_application raises: nothing
\* catches it and nothing undoes update_one; 500
ActLogFail(w) ==
    /\ pc[w] = "act_log"
    /\ ValidStatusUpdate(ActionUpdate(local[w].app_id, local[w].action))
    /\ Respond(w, ErrorResponse(500))
    /\ UNCHANGED <<db, refdata, application, statusupdate, clock, local, nreq, calls>>

\* handlers run one after another over a store whose StatusUpdate insert may fail
FailNext ==
    \/ \E w \in Workers : Idle /\ ConcRequest(w)
    \/ \E w \in Workers : Continue(w)
    \/ \E w \in Workers : SubmitLogFail(w)
    \/ \E w \in Workers : ActLogFail(w)
    \/ \E w \in Workers : Return(w)

FailSpec == Init /\ [][FailNext]_vars

\* ---------------------------------------------------------------- properties
\* worker w's step is the update_one of act_on_application
ActUpdated(w) == pc[w] = "act_update" /\ pc'[w] = "act_log"

\* worker w's step ends act_on_application after its update_one
ActEnded(w) == pc[w] = "act_log" /\ pc'[w] = "done"

\* the string app_id denotes a stored application
References(app_id) == ObjectIdValid(app_id) /\ Exists(ObjectId(app_id))

\* the StatusUpdate documents whose application_id denotes application n
UpdatesOf(n) ==
    {i \in 1..Len(statusupdate) :
        /\ ObjectIdValid(statusupdate[i].application_id)
        /\ ObjectId(statusupdate[i].application_id) = n}

IsPrefix(s, t) == Len(s) <= Len(t) /\ \A i \in 1..Len(s) : s[i] = t[i]

\* C1: every accepted submission, also one whose body carries status,
\* current_stage or route_history, stores the application with
\* status=submitted, current_stage=coordinator and an empty route_history, and
\* answers status "submitted".
C1_SubmitStoresInitialWorkflow ==
    \A w \in Workers :
        (pc[w] = "done" /\ local[w].op = "submit" /\ resp[w].code = 200) =>
            LET doc == FindOne(ObjectId(resp[w].id)) IN
            /\ doc.status = "submitted"
            /\ doc.current_stage = "coordinator"
            /\ doc.route_history = <<>>
            /\ resp[w].status = "submitted"

\* C2: when no handler is running, every application has one StatusUpdate for
\* its submission and one more for each action call whose update was stored,
\* whatever actor_role and action strings the calls carried.
C2_OneUpdatePerMutation ==
    Idle => \A n \in 1..Len(application) :
                Cardinality(UpdatesOf(n)) = 1 + Len(calls[n])

\* C3 as claimed: a forward sets status forwarded; with to_department given
\* (any value other than None) the stage becomes it and it is appended to
\* route_history; with to_department omitted the stage stays and is appended.
C3_ForwardGiven ==
    [][\A w \in Workers :
        (ActUpdated(w) /\ local[w].action.action = "forward") =>
            LET n == ObjectId(local[w].app_id)
                D == local[w].action.to_department
                old == application[n]
                new == application'[n]
            IN  /\ new.status = "forwarded"
                /\ IF D # None
                   THEN /\ new.current_stage = D
                        /\ new.route_history = Append(old.route_history, D)
                   ELSE /\ new.current_stage = old.current_stage
                        /\ new.route_history =
                              Append(old.route_history, old.current_stage)]_vars

\* C3 as amended: a forward sets status forwarded; with a non-empty
\* to_department the stage becomes it and it is appended to route_history; with
\* to_department omitted or empty the stage stays and is appended.
C3_ForwardNonEmpty ==
    [][\A w \in Workers :
        (ActUpdated(w) /\ local[w].action.action = "forward") =>
            LET n == ObjectId(local[w].app_id)
                D == local[w].action.to_department
                old == application[n]
                new == application'[n]
            IN  /\ new.status = "forwarded"
                /\ IF D # None /\ D # ""
                   THEN /\ new.current_stage = D
                        /\ new.route_history = Append(old.route_history, D)
                   ELSE /\ new.current_stage = old.current_stage
                        /\ new.route_history =
                              Append(old.route_history, old.current_stage)]_vars

\* a forward with to_department "hod" and one with the empty to_department
\* have both been applied to an application submitted at stage coordinator
C3_Witness ==
    \E w \in Workers :
        /\ pc[w] = "act_log"
        /\ local[w].action.action = "forward"
        /\ local[w].action.to_department = ""
        /\ LET doc == application[ObjectId(local[w].app_id)] IN
            /\ doc.status = "forwarded"
            /\ doc.current_stage = "hod"
            /\ doc.route_history = <<"hod", "hod">>

\* C4: an approve or reject leaves current_stage and route_history as they
\* were, sets status approved resp. rejected, and adds one StatusUpdate.
C4_ApproveRejectFrame ==
    [][\A w \in Workers :
        /\ (ActUpdated(w) /\ local[w].action.action \in {"approve", "reject"}) =>
              LET n == ObjectId(local[w].app_id)
                  old == application[n]
                  new == application'[n]
              IN  /\ new.current_stage = old.current_stage
                  /\ new.route_history = old.route_history
                  /\ new.status = IF local[w].action.action = "approve"
                                  THEN "approved" ELSE "rejected"
                  /\ statusupdate' = statusupdate
        /\ (ActEnded(w) /\ local[w].action.action \in {"approve", "reject"}) =>
              /\ Len(statusupdate') = Len(statusupdate) + 1
              /\ application' = application]_vars

\* C5: an action other than forward, approve and reject stores status
\* under_review, leaves current_stage and route_history as they were, and
\* answers status under_review.
C5_OtherActionsUnderReview ==
    [][\A w \in Workers :
        /\ (ActUpdated(w)
              /\ local[w].action.action \notin {"forward", "approve", "reject"}) =>
              LET n == ObjectId(local[w].app_id)
                  old == application[n]
                  new == application'[n]
              IN  /\ new.status = "under_review"
                  /\ new.current_stage = old.current_stage
                  /\ new.route_history = old.route_history
        /\ (ActEnded(w)
              /\ local[w].action.action \notin {"forward", "approve", "reject"}) =>
              /\ resp'[w].code = 200
              /\ resp'[w].status = "under_review"
              /\ FindOne(ObjectId(local[w].app_id)).status = "under_review"]_vars

\* C6: with the store available, an action call whose id denotes no stored
\* application, well formed or not, answers 404, adds no StatusUpdate and
\* changes no application.
C6_UnknownIdNotFound ==
    [][\A w \in Workers :
        (/\ pc[w] = "idle" /\ pc'[w] = "done"
         /\ local'[w].op = "act"
         /\ db = "connected"
         /\ ~References(local'[w].app_id)) =>
            /\ resp'[w].code = 404
            /\ statusupdate' = statusupdate
            /\ application' = application]_vars

\* C7: when a submission has answered with id A, exactly one StatusUpdate has
\* action submit and application_id A, and it has actor_role student, the
\* submitted student_name as actor_name and comments "Application submitted".
C7_SubmitLogsOneUpdate ==
    \A w \in Workers :
        (pc[w] = "done" /\ local[w].op = "submit" /\ resp[w].code = 200) =>
            LET A == resp[w].id
                S == {i \in 1..Len(statusupdate) :
                        /\ statusupdate[i].action = "submit"
                        /\ statusupdate[i].application_id = A}
            IN  /\ Cardinality(S) = 1
                /\ \A i \in S :
                    /\ statusupdate[i].actor_role = "student"
                    /\ statusupdate[i].actor_name = local[w].app_data.student_name
                    /\ statusupdate[i].comments = "Application submitted"
                /\ References(A)
                /\ FindOne(ObjectId(A)).student_name = local[w].app_data.student_name

\* a submission has answered after an earlier application went through an
\* action named submit
C7_Witness ==
    \E w \in Workers :
        /\ pc[w] = "done" /\ local[w].op = "submit" /\ resp[w].code = 200
        /\ resp[w].id = 2
        /\ \E i \in 1..Len(statusupdate) :
            /\ statusupdate[i].action = "submit"
            /\ statusupdate[i].actor_role = "hod"

\* C8: with calls made one after another, getTimeline of a stored application
\* answers its StatusUpdates in non-decreasing created_at order, which is the
\* order of the calls: the submit entry, then one entry per action call.
C8_TimelineInCallOrder ==
    \A w \in Workers :
        (/\ pc[w] = "done" /\ local[w].op = "timeline" /\ resp[w].code = 200
         /\ local[w].app_id \in 1..Len(application)) =>
            LET t == resp[w].timeline IN
            /\ \A i, j \in 1..Len(t) : i < j => t[i].created_at <= t[j].created_at
            /\ [i \in 1..Len(t) |-> t[i].action] = <<"submit">> \o calls[local[w].app_id]

\* C9: with the store available, getTimeline with an id that denotes no stored
\* application, or one no StatusUpdate carries, answers 200 with an empty
\* sequence and changes nothing stored.
C9_TimelineOfUnknownIdEmpty ==
    [][\A w \in Workers :
        (/\ pc[w] = "idle" /\ pc'[w] = "done"
         /\ local'[w].op = "timeline"
         /\ db = "connected"
         /\ \/ ~References(local'[w].app_id)
            \/ \A i \in 1..Len(statusupdate) :
                  statusupdate[i].application_id # local'[w].app_id) =>
            /\ resp'[w].code = 200
            /\ resp'[w].timeline = <<>>
            /\ statusupdate' = statusupdate
            /\ application' = application]_vars

\* getTimeline has answered for a stored application whose submission has not
\* logged its StatusUpdate yet, while another application has StatusUpdates
C9_Witness ==
    \E w \in Workers :
        /\ pc[w] = "done" /\ local[w].op = "timeline" /\ resp[w].code = 200
        /\ References(local[w].app_id)
        /\ UpdatesOf(ObjectId(local[w].app_id)) = {}
        /\ statusupdate # <<>>
        /\ resp[w].timeline = <<>>

\* C10: in every step, also of interleaved handlers, the route_history of
\* every application before the step is a prefix of the one after it.
C10_RouteHistoryGrows ==
    [][\A n \in 1..Len(application) :
        IsPrefix(application[n].route_history, application'[n].route_history)]_vars

\* two interleaved forwards have both been applied to one application
C10_Witness ==
    /\ \A w \in Workers : pc[w] = "act_log" /\ local[w].action.action = "forward"
    /\ \E n \in 1..Len(application) :
        /\ \A w \in Workers : ObjectId(local[w].app_id) = n
        /\ application[n].route_history = <<"hod", "hod">>

\* C11: every stored application has a status among the five status literals
\* and a current_stage among the four stage literals, whatever to_department
\* strings the action calls carried.
C11_WorkflowFieldsInEnums ==
    \A n \in 1..Len(application) :
        /\ application[n].status \in StatusLiterals
        /\ application[n].current_stage \in StageLiterals

\* the other worker's action call on the same application is between its read
\* and its response
Overlaps(w, v) ==
    /\ w # v
    /\ pc[w] \in {"act_update", "act_log"}
    /\ pc[v] \in {"act_update", "act_log"}
    /\ ObjectId(local[w].app_id) = ObjectId(local[v].app_id)

\* C12: of two interleaved action calls on one application, each update stores
\* its own status (so the last one applied decides the stored status) and each
\* call ends with status 200 and its StatusUpdate appended to the collection.
C12_InterleavedBothLogged ==
    [][\A w, v \in Workers :
        Overlaps(w, v) =>
            LET n == ObjectId(local[w].app_id) IN
            /\ ActUpdated(w) => application'[n].status = local[w].new_status
            /\ ActEnded(w) =>
                /\ resp'[w].code = 200
                /\ Len(statusupdate') = Len(statusupdate) + 1
                /\ IsPrefix(statusupdate, statusupdate')
                /\ statusupdate'[Len(statusupdate')].application_id = local[w].app_id]_vars

\* C13: the status and current_stage a successful action call returns are the
\* ones the application holds in the store right after that call's update,
\* also when another call's update was applied after this call's read.
C13_ReturnsStoredState ==
    [][\A w \in Workers :
        LET n == ObjectId(local[w].app_id) IN
        /\ ActUpdated(w) =>
            /\ application'[n].status = local[w].new_status
            /\ application'[n].current_stage = local[w].current_stage
        /\ (ActEnded(w) /\ resp'[w].code = 200) =>
            /\ resp'[w].status = local[w].new_status
            /\ resp'[w].current_stage = local[w].current_stage]_vars

\* C14: the update of a forward without to_department leaves the stored
\* current_stage as it was immediately before that update, also when another
\* forward on the application was applied after this call's read.
C14_ForwardOmittedKeepsStage ==
    [][\A w \in Workers :
        (ActUpdated(w) /\ local[w].action.action = "forward"
                       /\ local[w].action.to_department = None) =>
            LET n == ObjectId(local[w].app_id) IN
            application'[n].current_stage = application[n].current_stage]_vars

\* the status the transition table gives for an action
TableStatus(a) ==
    CASE a = "forward" -> "forwarded"
      [] a = "approve" -> "approved"
      [] a = "reject"  -> "rejected"
      [] OTHER         -> "under_review"

\* C15: for every stored application in every status and for every actor_role,
\* each of forward, approve, reject and review stores the status of the
\* transition table and the call succeeds with that status.
C15_NoGuardOnStateOrRole ==
    [][\A w \in Workers :
        (pc[w] \in {"act_update", "act_log"}
            /\ local[w].action.action \in {"forward", "approve", "reject", "review"}) =>
            LET n == ObjectId(local[w].app_id)
                s == TableStatus(local[w].action.action) IN
            /\ ActUpdated(w) => application'[n].status = s
            /\ ActEnded(w) => resp'[w].code = 200 /\ resp'[w].status = s]_vars

\* the number of forwards applied to application n
Forwards(n) == Len(SelectSeq(calls[n], LAMBDA a : a = "forward"))

\* C18: in every reachable state, also between interleaved handlers, an
\* application that was created with an empty route_history (its history holds
\* exactly the forwards applied to it) and whose route_history is not empty has
\* the stored current_stage as the last element of route_history.
C18_LastRouteIsStage ==
    \A n \in 1..Len(application) :
        LET h == application[n].route_history IN
        (Len(h) = Forwards(n) /\ h # <<>>) =>
            h[Len(h)] = application[n].current_stage

\* a forward without to_department, read before an interleaved forward to hod
\* was applied, has been applied after it
C18_Witness ==
    \E n \in 1..Len(application) :
        /\ application[n].route_history = <<"hod", "coordinator">>
        /\ Forwards(n) = 2
        /\ \A w \in Workers : pc[w] = "act_log" /\ ObjectId(local[w].app_id) = n

\* C19: an application that some action call has updated does not have the
\* status submitted, in every reachable state.
C19_NeverSubmittedAgain ==
    \A n \in 1..Len(application) :
        calls[n] # <<>> => application[n].status # "submitted"

\* two interleaved action calls, a review among them, have updated an
\* application that was stored with status submitted
C19_Witness ==
    \E n \in 1..Len(application) :
        /\ Len(calls[n]) = 2
        /\ \E i \in 1..2 : calls[n][i] = "review"
        /\ application[n].status = "under_review"
        /\ \A w \in Workers : pc[w] = "act_log" /\ ObjectId(local[w].app_id) = n

\* C16: when the StatusUpdate write of a handler fails after its first write,
\* the call answers 500, no StatusUpdate is added and the first write stays:
\* the inserted application remains stored (submit), the application keeps the
\* status the update stored (action); nothing is rolled back.
C16_NoRollback ==
    [][\A w \in Workers :
        /\ (pc[w] = "submit_log" /\ pc'[w] = "done" /\ resp'[w].code = 500) =>
            /\ application' = application
            /\ statusupdate' = statusupdate
            /\ Exists(ObjectId(local[w].inserted_id))
            /\ UpdatesOf(ObjectId(local[w].inserted_id)) = {}
        /\ (pc[w] = "act_log" /\ pc'[w] = "done" /\ resp'[w].code = 500) =>
            /\ application' = application
            /\ statusupdate' = statusupdate
            /\ application[ObjectId(local[w].app_id)].status = local[w].new_status
            /\ calls[ObjectId(local[w].app_id)] # <<>>]_vars

\* no handler is running, and an application is stored with a status an action
\* call gave it while no StatusUpdate at all refers to it
C16_Witness ==
    /\ Idle
    /\ \E n \in 1..Len(application) :
        /\ UpdatesOf(n) = {}
        /\ calls[n] # <<>>
        /\ application[n].status = "approved"

\* the StatusUpdate documents stored under the string app_id
StoredUnder(app_id) ==
    {i \in 1..Len(statusupdate) : statusupdate[i].application_id = app_id}

\* C17: no step of submit, action, timeline or list handlers changes or removes
\* a stored StatusUpdate (the collection before the step is a prefix of the one
\* after it), and every timeline answered holds each StatusUpdate stored
\* under the id once, with its fields as stored; so a later timeline of the
\* same id holds every record of an earlier one.
C17_StatusUpdatesAppendOnly ==
    [][/\ IsPrefix(statusupdate, statusupdate')
       /\ \A w \in Workers :
            (pc[w] = "idle" /\ pc'[w] = "done" /\ local'[w].op = "timeline"
                /\ resp'[w].code = 200) =>
                LET t == resp'[w].timeline
                    S == StoredUnder(local'[w].app_id) IN
                /\ Len(t) = Cardinality(S)
                /\ \A i \in S : \E j \in 1..Len(t) : t[j] = to_public(statusupdate[i])]_vars

\* a timeline of two records has been answered while StatusUpdates of another
\* application are stored too
C17_Witness ==
    \E w \in Workers :
        /\ pc[w] = "done" /\ local[w].op = "timeline" /\ resp[w].code = 200
        /\ Len(resp[w].timeline) = 2
        /\ Len(statusupdate) = 3

\* the fields of an application the workflow writes
WorkflowFields == {"status", "current_stage", "route_history"}

\* worker w's action handler takes a step
ActStep(w) == local'[w].op = "act" /\ pc[w] # "done" /\ pc'[w] # pc[w]

\* C20: every step of an action call on application A leaves all department,
\* user and notification documents, every other application and every field
\* of A other than status, current_stage and route_history unchanged, stores
\* and removes no application, and adds at most one StatusUpdate, at its last
\* step, whose application_id denotes A.
C20_ActionFrame ==
    [][\A w \in Workers :
        ActStep(w) =>
            LET a == local'[w].app_id IN
            /\ refdata' = refdata
            /\ Len(application') = Len(application)
            /\ \A m \in 1..Len(application) :
                IF References(a) /\ m = ObjectId(a)
                THEN /\ DOMAIN application'[m] = DOMAIN application[m]
                     /\ \A f \in DOMAIN application[m] \ WorkflowFields :
                            application'[m][f] = application[m][f]
                ELSE application'[m] = application[m]
            /\ \/ statusupdate' = statusupdate
               \/ /\ ActEnded(w)
                  /\ Len(statusupdate') = Len(statusupdate) + 1
                  /\ IsPrefix(statusupdate, statusupdate')
                  /\ ObjectId(statusupdate'[Len(statusupdate')].application_id)
                        = ObjectId(a)]_vars

\* a forward has been applied and logged on one of two stored applications
\* while a reference-data document is stored
C20_Witness ==
    \E w \in Workers :
        /\ pc[w] = "done" /\ local[w].op = "act" /\ resp[w].code = 200
        /\ RefDocs > 0
        /\ Len(application) = 2
        /\ application[ObjectId(local[w].app_id)].route_history # <<>>
        /\ \E m \in 1..2 : m # ObjectId(local[w].app_id)
                            /\ application[m].status = "submitted"

====
